---- MODULE Spec2Model ----
(***************************************************************************)
(* ValuApi (the ApiClient facade), APIPointer (the ModuleHandle) and       *)
(* Intent of Roomful/valu-api, as a state machine.                         *)
(*                                                                         *)
(* One step is one task of the single-threaded event loop: a call made by  *)
(* application code, or one inbound 'message' event, together with the     *)
(* promise continuations it releases.                                      *)
(***************************************************************************)
EXTENDS Integers, Sequences, FiniteSets, TLC

VARIABLES
    valuApplication,      \* ValuApi.#valuApplication  {id, source, origin}
    lastIntent,           \* ValuApi.#lastIntent
    applicationInstance,  \* ValuApi.#applicationInstance
    requests,             \* ValuApi.#requests : own properties, id -> entry
    idCounter,            \* Utils.nextId : last identifier handed out
    guidCounter,          \* Utils.guid4  : last guid handed out
    pending,              \* callers suspended on a promise, by slot
    handles,              \* the APIPointer objects constructed so far
    host,                 \* history: the most recent api:ready payload
    events,               \* ValuApi.#eventEmitter : EventEmitter.#events
    created,              \* history: the shells whose onCreate has been invoked
    last                  \* what the most recent step did

vars == <<valuApplication, lastIntent, applicationInstance, requests,
          idCounter, guidCounter, pending, handles, host, events, created, last>>

----------------------------------------------------------------------------
(* Bounds of the exploration.                                              *)

MaxId == 3
MaxPending == 2
MaxListeners == 3

----------------------------------------------------------------------------
(* JavaScript values.                                                      *)

Undefined == "undefined"

\* if (x): the empty string and undefined are falsy, other strings truthy.
Truthy(x) == x # Undefined /\ x # ""

NoFault == "none"
TypeError == "TypeError"
NoErr == "<none>"

\* A property name every object inherits through its prototype chain
\* ('constructor'); identifiers handed out by nextId are 1, 2, ...
InheritedKey == 0

Ids == 1..MaxId
WireIds == Ids \cup {InheritedKey}

Slots == 1..MaxPending
Free == [op |-> "free", id |-> 0, guid |-> 0, api |-> Undefined,
         version |-> Undefined, h |-> 0]

ApiNames == {"x"}
ReqVersions == {Undefined, "2"}
Paths == {"/console", "/documentation"}
Shells == {"base", "plain"}
NoApp == "null"

\* reply payloads (event.data.message of the three reply kinds)
Payloads ==
    { [error |-> Undefined,   version |-> "3",       body |-> "ok"],
      [error |-> "not found", version |-> Undefined, body |-> "ERROR: unknown command"],
      [error |-> "",          version |-> "2",       body |-> "ok"] }
NoPayload == [error |-> Undefined, version |-> Undefined, body |-> Undefined]

\* api:ready / api:new-intent payloads {applicationId?, action?, params?}
IntentMsgs ==
    { [applicationId |-> "app", action |-> Undefined, params |-> Undefined],
      [applicationId |-> "app", action |-> Undefined, params |-> "{id:1}"],
      [applicationId |-> "app", action |-> "view",    params |-> "{id:1}"] }
NoMsg == [applicationId |-> Undefined, action |-> "<no message>", params |-> Undefined]

\* the api:ready events delivered, each with the event.source / event.origin
\* of its transport envelope: the launch, and a later one from elsewhere
ReadyEvents ==
    { [endpoint |-> [source |-> "hostA", origin |-> "https://a"],
       message |-> [applicationId |-> "app", action |-> Undefined, params |-> Undefined]],
      [endpoint |-> [source |-> "hostB", origin |-> "https://b"],
       message |-> [applicationId |-> "app", action |-> "view", params |-> "{id:1}"]] }

----------------------------------------------------------------------------
(* Intent                                                                  *)

ACTION_OPEN == "open"

\* faulty variant: the arguments are stored as they come
IntentAsGiven(applicationId, action, params) ==
    [applicationId |-> applicationId, action |-> action, params |-> params]

Intent(applicationId, action, params) ==
    [applicationId |-> applicationId,
     action |-> IF action = Undefined THEN ACTION_OPEN ELSE action,
     params |-> IF params = Undefined THEN "{}" ELSE params]

NoIntent == [applicationId |-> Undefined, action |-> Undefined, params |-> Undefined]

----------------------------------------------------------------------------
(* Utils.js (not among the sources): identifier generation.                *)

nextId(counter) == counter + 1
guid4(counter) == counter + 1

----------------------------------------------------------------------------
(* Objects used as dictionaries: table[key], table[key] = v, delete.       *)

\* table[key]: an own property, else what the prototype chain supplies.
Lookup(table, key) ==
    IF key \in DOMAIN table THEN table[key]
    ELSE IF key = InheritedKey THEN [kind |-> "inherited", ref |-> 0]
    ELSE [kind |-> "undefined", ref |-> 0]

Put(table, key, entry) ==
    [k \in DOMAIN table \cup {key} |-> IF k = key THEN entry ELSE table[k]]

\* faulty variant: the entry is left in the table
DeleteKept(table, key) == table

Delete(table, key) ==
    [k \in DOMAIN table \ {key} |-> table[k]]

\* a table entry: a deferred {id, promise, resolve, reject}, named by the slot
\* of the caller suspended on its promise (0: no caller holds the promise),
\* or an APIPointer, named by its position in handles
Deferred(slot) == [kind |-> "deferred", ref |-> slot]
Pointer(h) == [kind |-> "pointer", ref |-> h]
OrphanDeferred == [kind |-> "deferred", ref |-> 0]

EmptyTable == [k \in {} |-> OrphanDeferred]

----------------------------------------------------------------------------
(* The record of a step.                                                   *)

NoPost == <<>>

\* the identifier a step is recorded under: the message's requestId when it
\* names something the client holds or inherits, NoId otherwise
NoId == 0 - 1

Step(op, id, message, fault, settled, lifecycle, posted, emitted) ==
    [op |-> op, id |-> id, message |-> message, fault |-> fault, settled |-> settled,
     lifecycle |-> lifecycle, posted |-> posted, emitted |-> emitted,
     invoked |-> <<>>, returned |-> Undefined, aborted |-> FALSE,
     retired |-> FALSE, order |-> <<>>]

\* the outcome a caller observes
Outcome(slot, call, outcome, value, err, h) ==
    [slot |-> slot, op |-> call.op, id |-> call.id, reqVersion |-> call.version,
     handle |-> call.h, outcome |-> outcome, value |-> value, err |-> err, h |-> h]

Call(op, id, guid, api, version, h) ==
    [op |-> op, id |-> id, guid |-> guid, api |-> api, version |-> version, h |-> h]

FreeSlots == {s \in Slots : pending[s].op = "free"}
FirstFree == CHOOSE s \in FreeSlots : \A t \in FreeSlots : s <= t

connected == valuApplication.origin # Undefined

----------------------------------------------------------------------------
(* EventEmitter                                                            *)

\* #events: event name -> the array of {callback, once} held under it
EmptyEvents == [n \in {} |-> <<>>]

Listener(callback, once) == [callback |-> callback, once |-> once]

\* this.#events[eventName] || []
Listeners(ev, eventName) == IF eventName \in DOMAIN ev THEN ev[eventName] ELSE <<>>

ListenerCount(ev) ==
    LET RECURSIVE Sum(_)
        Sum(names) == IF names = {} THEN 0
                      ELSE LET n == CHOOSE x \in names : TRUE
                           IN Len(ev[n]) + Sum(names \ {n})
    IN Sum(DOMAIN ev)

\* the listener functions application code subscribes: L returns a value,
\* K returns nothing, U unsubscribes L from event "f" and returns nothing
Callbacks == {"L", "K", "U"}
Returns(callback) == IF callback = "L" THEN "value of L" ELSE Undefined
Unsubscribes(callback) == IF callback = "U" THEN <<"f", "L">> ELSE <<>>

addEventListener(ev, eventName, callback, once) ==
    Put(ev, eventName, Append(Listeners(ev, eventName), Listener(callback, once)))

\* faulty variant: the callback is removed from the list of every event name
removeEventListenerEveryName(ev, eventName, callback) ==
    [n \in DOMAIN ev |-> SelectSeq(ev[n], LAMBDA l : l.callback # callback)]

\* removeEventListener(eventName = false, callback = false)
removeEventListener(ev, eventName, callback) ==
    IF ~Truthy(eventName) THEN EmptyEvents
    ELSE IF ~Truthy(callback) THEN Put(ev, eventName, <<>>)
    ELSE IF eventName \in DOMAIN ev
    THEN [ev EXCEPT ![eventName] = SelectSeq(@, LAMBDA l : l.callback # callback)]
    ELSE ev

\* listener.callback.apply(this, parameters): what the listener does to #events
Apply(ev, callback) ==
    IF Unsubscribes(callback) = <<>> THEN ev
    ELSE removeEventListener(ev, Unsubscribes(callback)[1], Unsubscribes(callback)[2])

Invocation(eventName, listener, parameters, removed) ==
    [name |-> eventName, callback |-> listener.callback, once |-> listener.once,
     args |-> parameters, removed |-> removed]

\* listeners.splice(index, 1)
Splice(list, index) ==
    IF index \in 1..Len(list)
    THEN SubSeq(list, 1, index - 1) \o SubSeq(list, index + 1, Len(list))
    ELSE list

\* faulty variant: the once-listeners stay in the list
SpliceOnceListenersKept(list, onceListeners) == list

\* for (i = onceListeners.length - 1; i >= 0; i--) listeners.splice(onceListeners[i], 1)
SpliceOnceListeners(list, onceListeners) ==
    LET RECURSIVE Down(_, _)
        Down(l, i) == IF i = 0 THEN l ELSE Down(Splice(l, onceListeners[i]), i - 1)
    IN Down(list, Len(onceListeners))

\* the for loop of emit over the array held under eventName, from index i
\* on; st = [events, invoked, onceListeners, lastValue, returnValue, aborted]
RECURSIVE EmitLoop(_, _, _, _, _)
EmitLoop(st, eventName, parameters, i, length) ==
    IF i > length THEN st
    ELSE IF i > Len(Listeners(st.events, eventName))
    THEN [st EXCEPT !.aborted = TRUE]
    ELSE LET listener == st.events[eventName][i]
             called == listener.callback # Undefined
             after == IF called THEN Apply(st.events, listener.callback)
                      ELSE [st.events EXCEPT ![eventName][i].once = TRUE]
             lastValue == IF called THEN Returns(listener.callback) ELSE st.lastValue
         IN EmitLoop(
              [events |-> after,
               invoked |-> IF called
                           THEN Append(st.invoked,
                                       Invocation(eventName, listener, parameters,
                                                  ListenerCount(st.events)
                                                    - ListenerCount(after)))
                           ELSE st.invoked,
               onceListeners |-> IF listener.once \/ ~called
                                 THEN Append(st.onceListeners, i)
                                 ELSE st.onceListeners,
               lastValue |-> lastValue,
               returnValue |-> IF lastValue # Undefined THEN lastValue
                               ELSE st.returnValue,
               aborted |-> FALSE],
              eventName, parameters, i + 1, length)

\* one pass of emit over the listeners of eventName: the loop, then the
\* removal of the once-listeners (skipped by the early return of the loop)
EmitPass(ev, invoked, eventName, parameters) ==
    LET st == EmitLoop([events |-> ev, invoked |-> invoked, onceListeners |-> <<>>,
                        lastValue |-> Undefined, returnValue |-> Undefined,
                        aborted |-> FALSE],
                       eventName, parameters, 1, Len(Listeners(ev, eventName)))
    IN IF st.aborted \/ eventName \notin DOMAIN st.events
       THEN [events |-> st.events, invoked |-> st.invoked, returnValue |-> Undefined,
             aborted |-> st.aborted]
       ELSE [events |-> [st.events EXCEPT ![eventName] =
                            SpliceOnceListeners(@, st.onceListeners)],
             invoked |-> st.invoked, returnValue |-> st.returnValue,
             aborted |-> FALSE]

MetaEvents == {"__before__", "__after__"}

\* emit(eventName, ...parameters)
emit(ev, eventName, parameters) ==
    LET specialEvent == eventName \in MetaEvents
        before == IF specialEvent
                  THEN [events |-> ev, invoked |-> <<>>]
                  ELSE EmitPass(ev, <<>>, "__before__", <<eventName>> \o parameters)
        pass == EmitPass(before.events, before.invoked, eventName, parameters)
        after == IF specialEvent \/ pass.aborted
                 THEN pass
                 ELSE EmitPass(pass.events, pass.invoked, "__after__",
                               <<eventName>> \o parameters)
    IN [events |-> after.events, invoked |-> after.invoked,
        returnValue |-> pass.returnValue, aborted |-> pass.aborted]

\* what a step that published records of the publish
Published(step, result) ==
    [step EXCEPT !.invoked = result.invoked, !.returned = result.returnValue,
                 !.aborted = result.aborted]

----------------------------------------------------------------------------
(* ValuApi: posting.                                                       *)

\* faulty variant: a post without an endpoint is dropped silently
PostFaultNever == NoFault

\* this.#valuApplication.source.postMessage(data, origin): a TypeError while
\* no api:ready has set source
PostFault ==
    IF valuApplication.source = Undefined THEN TypeError ELSE NoFault

\* the message handed to source.postMessage, with the endpoint it goes to
Message(name, hasRequestId, requestId, apiPointerId, data) ==
    [name |-> name, hasRequestId |-> hasRequestId, requestId |-> requestId,
     apiPointerId |-> apiPointerId, data |-> data,
     source |-> valuApplication.source, origin |-> valuApplication.origin]

\* faulty variant: the identifier of the previous deferred is handed out again
CreateDeferredReused(counter) == IF counter = 0 THEN 1 ELSE counter

\* ValuApi.#createDeferred: { id: nextId(), promise, resolve, reject }
CreateDeferred(counter) == nextId(counter)

\* APIPointer.#createDeferred
PointerCreateDeferred(counter) == nextId(counter)

----------------------------------------------------------------------------
(* APIPointer                                                              *)

StringValue(v) == [t |-> "string", v |-> v]
\* (functionName, params, requestId, apiPointer) => this.#onApiRunRequest(...)
RunRequestCallback == [t |-> "function", v |-> 0]

\* constructor(apiName, version, runRequest): the first three arguments of
\* the call are bound, further ones are dropped; the guid is a fresh guid4()
APIPointer(args, counter) ==
    [apiName |-> args[1],
     version |-> args[2],
     guid |-> guid4(counter),
     runRequest |-> args[3],
     events |-> EmptyEvents,
     apiCalls |-> EmptyTable]

\* faulty variant: the requested version is passed on, not the assigned one
GetApiArgumentsRequested(call, result) ==
    <<call.api, call.version, StringValue(call.guid), RunRequestCallback>>

\* what getApi passes to new APIPointer(...)
GetApiArguments(call, result) ==
    <<call.api, result.version, StringValue(call.guid), RunRequestCallback>>

----------------------------------------------------------------------------
(* Settling a deferred of the top-level table.                             *)

\* faulty variant: result.error is not looked at
GetApiContinuationUnchecked(slot, call, result) ==
    [settled |-> <<Outcome(slot, call, "resolved", result, NoErr, Len(handles) + 1)>>,
     handles |-> Append(handles,
                        APIPointer(GetApiArguments(call, result), guidCounter)),
     guidCounter |-> guid4(guidCounter)]

\* getApi after `await this.#registerApiPointer(...)` yielded result
GetApiContinuation(slot, call, result) ==
    IF Truthy(result.error)
    THEN [settled |-> <<Outcome(slot, call, "rejected", result, result.error, 0)>>,
          handles |-> handles,
          guidCounter |-> guidCounter]
    ELSE [settled |-> <<Outcome(slot, call, "resolved", result, NoErr,
                               Len(handles) + 1)>>,
          handles |-> Append(handles,
                             APIPointer(GetApiArguments(call, result), guidCounter)),
          guidCounter |-> guid4(guidCounter)]

\* faulty variant: a payload with an error rejects the deferred
ResolveOrReject(slot, message) ==
    IF slot = 0
    THEN [settled |-> <<>>, handles |-> handles, guidCounter |-> guidCounter]
    ELSE IF pending[slot].op = "getApi"
    THEN GetApiContinuation(slot, pending[slot], message)
    ELSE IF Truthy(message.error)
    THEN [settled |-> <<Outcome(slot, pending[slot], "rejected", message,
                               message.error, 0)>>,
          handles |-> handles,
          guidCounter |-> guidCounter]
    ELSE [settled |-> <<Outcome(slot, pending[slot], "resolved", message, NoErr, 0)>>,
          handles |-> handles,
          guidCounter |-> guidCounter]

\* deferred.resolve(message) and the continuations of the caller awaiting it
Resolve(slot, message) ==
    IF slot = 0
    THEN [settled |-> <<>>, handles |-> handles, guidCounter |-> guidCounter]
    ELSE IF pending[slot].op = "getApi"
    THEN GetApiContinuation(slot, pending[slot], message)
    ELSE [settled |-> <<Outcome(slot, pending[slot], "resolved", message, NoErr, 0)>>,
          handles |-> handles,
          guidCounter |-> guidCounter]

\* faulty variant: the caller stays suspended on the settled promise
ReleaseNever(slot) == pending

\* the caller resumed by the settled promise is suspended no longer
Release(slot) ==
    IF slot = 0 THEN pending ELSE [pending EXCEPT ![slot] = Free]

----------------------------------------------------------------------------
(* ValuApi: the operations application code calls.                         *)

\* the three operations that post first and record the deferred afterwards
\* (#registerApiPointer under getApi, sendIntent, callService); a throw of
\* #postToValuApp inside the async function rejects the returned promise
PostThenRecord(op, name, call) ==
    LET id == call.id
        slot == FirstFree
    IN /\ idCounter' = id
       /\ IF PostFault = NoFault
          THEN /\ requests' = Put(requests, id, Deferred(slot))
               /\ pending' = [pending EXCEPT ![slot] = call]
               /\ last' = Step(op, id, NoPayload, NoFault, <<>>, <<>>,
                               <<Message(name, TRUE, id, call.guid, call.api)>>, <<>>)
          ELSE /\ UNCHANGED <<requests, pending>>
               /\ last' = Step(op, id, NoPayload, NoFault,
                               <<Outcome(0, call, "rejected", NoPayload, PostFault, 0)>>,
                               <<>>, NoPost, <<>>)

GetApi(apiName, version) ==
    /\ FreeSlots # {}
    /\ idCounter < MaxId
    /\ guidCounter' = guid4(guidCounter)
    /\ PostThenRecord("getApi", "api:create-pointer",
                      Call("getApi", CreateDeferred(idCounter), guid4(guidCounter),
                           apiName, version, 0))
    /\ UNCHANGED <<valuApplication, lastIntent, applicationInstance, handles, host, events, created>>

SendIntent(intent) ==
    /\ FreeSlots # {}
    /\ idCounter < MaxId
    /\ PostThenRecord("sendIntent", "api:run-intent",
                      Call("sendIntent", CreateDeferred(idCounter), 0,
                           intent.applicationId, Undefined, 0))
    /\ UNCHANGED <<valuApplication, lastIntent, applicationInstance, guidCounter,
                   handles, host, events, created>>

CallService(intent) ==
    /\ FreeSlots # {}
    /\ idCounter < MaxId
    /\ PostThenRecord("callService", "api:service-intent",
                      Call("callService", CreateDeferred(idCounter), 0,
                           intent.applicationId, Undefined, 0))
    /\ UNCHANGED <<valuApplication, lastIntent, applicationInstance, guidCounter,
                   handles, host, events, created>>

\* runConsoleCommand records the deferred before it posts
RunConsoleCommand(command) ==
    /\ FreeSlots # {}
    /\ idCounter < MaxId
    /\ LET id == CreateDeferred(idCounter)
           slot == FirstFree
           call == Call("runConsoleCommand", id, 0, command, Undefined, 0)
       IN /\ idCounter' = id
          /\ IF PostFault = NoFault
             THEN /\ requests' = Put(requests, id, Deferred(slot))
                  /\ pending' = [pending EXCEPT ![slot] = call]
                  /\ last' = Step("runConsoleCommand", id, NoPayload, NoFault, <<>>, <<>>,
                                  <<Message("api:run-console", TRUE, id, 0, command)>>,
                                  <<>>)
             ELSE /\ requests' = Put(requests, id, OrphanDeferred)
                  /\ UNCHANGED pending
                  /\ last' = Step("runConsoleCommand", id, NoPayload, NoFault,
                                  <<Outcome(0, call, "rejected", NoPayload, PostFault, 0)>>,
                                  <<>>, NoPost, <<>>)
    /\ UNCHANGED <<valuApplication, lastIntent, applicationInstance, guidCounter,
                   handles, host, events, created>>

\* faulty variant: the command is tracked like a request, under an identifier
RunCommandWithId(name, data) ==
    /\ last' = IF PostFault = NoFault
               THEN Step(name, 0, data, NoFault, <<>>, <<>>,
                         <<Message("api:run-command", TRUE, nextId(idCounter), 0,
                                   [command |-> name, data |-> data])>>, <<>>)
               ELSE Step(name, 0, data, PostFault, <<>>, <<>>, NoPost, <<>>)
    /\ UNCHANGED <<valuApplication, lastIntent, applicationInstance, requests,
                   idCounter, guidCounter, pending, handles, host, events, created>>

\* #runCommand under pushRoute / replaceRoute: not async, a throw reaches the
\* caller; the step records the path it was called with
RunCommand(name, data) ==
    /\ last' = IF PostFault = NoFault
               THEN Step(name, 0, data, NoFault, <<>>, <<>>,
                         <<Message("api:run-command", FALSE, 0, 0,
                                   [command |-> name, data |-> data])>>, <<>>)
               ELSE Step(name, 0, data, PostFault, <<>>, <<>>, NoPost, <<>>)
    /\ UNCHANGED <<valuApplication, lastIntent, applicationInstance, requests,
                   idCounter, guidCounter, pending, handles, host, events, created>>

PushRoute(path) == RunCommand("pushRoute", path)

ReplaceRoute(path) == RunCommand("replaceRoute", path)

\* the application objects handed to setApplication: "base" extends
\* ValuApplication (async onCreate / onNewIntent / onDestroy and nothing
\* else); "plain" has an onCreate that returns a plain value, and an
\* onUpdateRouterContext
ReturnsAwaitable(shell) == shell = "base"
HasRouterCallback(shell) == shell = "plain"

Lifecycle(shell, method, intent) ==
    [shell |-> shell, method |-> method, intent |-> intent]

\* faulty variant: the shell is bound, the launch intent is not replayed
SetApplicationNoReplay(appInstance) ==
    /\ applicationInstance' = appInstance
    /\ last' = Step("setApplication", 0, NoPayload, NoFault, <<>>, <<>>, NoPost, <<>>)
    /\ UNCHANGED <<valuApplication, lastIntent, requests, idCounter, guidCounter,
                   pending, handles, host, events, created>>

\* this.#applicationInstance.onCreate(this.#lastIntent).catch(console.error)
SetApplication(appInstance) ==
    /\ applicationInstance' = appInstance
    /\ last' = IF lastIntent # NoIntent
               THEN Step("setApplication", 0, NoPayload,
                         IF ReturnsAwaitable(appInstance) THEN NoFault ELSE TypeError,
                         <<>>, <<Lifecycle(appInstance, "onCreate", lastIntent)>>,
                         NoPost, <<>>)
               ELSE Step("setApplication", 0, NoPayload, NoFault, <<>>, <<>>, NoPost, <<>>)
    /\ created' = IF lastIntent # NoIntent THEN created \cup {appInstance} ELSE created
    /\ UNCHANGED <<valuApplication, lastIntent, requests, idCounter, guidCounter,
                   pending, handles, host, events>>

----------------------------------------------------------------------------
(* APIPointer.run and ValuApi.#onApiRunRequest                             *)

\* this.#runRequest(functionName, params, id, this): calling a value that is
\* not a function is a TypeError
RunRequestFault(h) ==
    IF handles[h].runRequest.t = "function" THEN NoFault ELSE TypeError

\* #onApiRunRequest: records the pointer, then posts; it is async and its
\* promise is dropped by the callback, so a throw of the post is not seen
\* by run
OnApiRunRequest(h, id) ==
    [requests |-> Put(requests, id, Pointer(h)),
     posted |-> IF PostFault = NoFault
                THEN <<Message("api:run", TRUE, id, handles[h].guid, "f")>>
                ELSE NoPost]

Run(h) ==
    /\ FreeSlots # {}
    /\ idCounter < MaxId
    /\ LET id == PointerCreateDeferred(idCounter)
           slot == FirstFree
           call == Call("run", id, 0, handles[h].apiName, Undefined, h)
       IN /\ idCounter' = id
          /\ IF RunRequestFault(h) = NoFault
             THEN /\ handles' = [handles EXCEPT ![h].apiCalls =
                                     Put(@, id, Deferred(slot))]
                  /\ requests' = OnApiRunRequest(h, id).requests
                  /\ pending' = [pending EXCEPT ![slot] = call]
                  /\ last' = Step("run", id, NoPayload, NoFault, <<>>, <<>>,
                                  OnApiRunRequest(h, id).posted, <<>>)
             ELSE /\ handles' = [handles EXCEPT ![h].apiCalls =
                                     Put(@, id, OrphanDeferred)]
                  /\ UNCHANGED <<requests, pending>>
                  /\ last' = Step("run", id, NoPayload, RunRequestFault(h),
                                  <<Outcome(0, call, "thrown", NoPayload,
                                            RunRequestFault(h), 0)>>,
                                  <<>>, NoPost, <<>>)
    /\ UNCHANGED <<valuApplication, lastIntent, applicationInstance, guidCounter, host, events, created>>

\* APIPointer.postRunResult(requestId, result), for the handle h
PostRunResult(h, requestId, result) ==
    LET deferred == Lookup(handles[h].apiCalls, requestId)
        slot == deferred.ref
    IN IF deferred.kind = "undefined"
       THEN [fault |-> NoFault, settled |-> <<>>, apiCalls |-> handles[h].apiCalls,
             pending |-> pending]
       ELSE IF deferred.kind # "deferred"
       THEN [fault |-> TypeError, settled |-> <<>>, apiCalls |-> handles[h].apiCalls,
             pending |-> pending]
       ELSE [fault |-> NoFault,
             settled |-> IF slot = 0 THEN <<>>
                         ELSE IF Truthy(result.error)
                         THEN <<Outcome(slot, pending[slot], "rejected", result,
                                        result.error, 0)>>
                         ELSE <<Outcome(slot, pending[slot], "resolved", result,
                                        NoErr, 0)>>,
             apiCalls |-> Delete(handles[h].apiCalls, requestId),
             pending |-> Release(slot)]

----------------------------------------------------------------------------
(* ValuApi.#handleParentMessage, one action per case of the switch.        *)

SubTableIds == UNION {DOMAIN handles[h].apiCalls : h \in 1..Len(handles)}

Named(requestId) ==
    IF requestId \in DOMAIN requests \cup SubTableIds \cup {InheritedKey}
    THEN requestId
    ELSE NoId

\* identifiers handed out earlier that are no longer in the top-level table
Retired == {i \in Ids : i <= idCounter /\ i \notin DOMAIN requests}

\* the record of a reply that found nothing under its identifier: whether
\* the identifier had been handed out before
Unrouted(step, requestId) == [step EXCEPT !.retired = requestId \in Retired]

API_READY == "api:ready"
ON_ROUTE == "on_route"

Emit(name, arg) == [name |-> name, arg |-> arg]

\* faulty variant: the origin of the envelope is not captured
CapturedEndpointWithoutOrigin(endpoint, message) ==
    [id |-> message.applicationId, source |-> endpoint.source, origin |-> Undefined]

\* { id: message.applicationId, source: event.source, origin: event.origin }
CapturedEndpoint(endpoint, message) ==
    [id |-> message.applicationId, source |-> endpoint.source,
     origin |-> endpoint.origin]

\* case 'api:ready'
\* a listener of the readiness event may issue a request of its own: "R"
\* calls runConsoleCommand('help') and lets the promise go
IssuesCommand(callback) == callback = "R"
ReadyCallbacks == {"L", "R"}

\* the invocations, in order, of listeners that issue a request
Issuing(invoked) == SelectSeq(invoked, LAMBDA v : IssuesCommand(v.callback))

\* faulty variant: the listeners run before the endpoint is stored
EndpointAtEmitStale(endpoint, message) == valuApplication

\* this.#valuApplication as the listeners of the readiness event find it
EndpointAtEmit(endpoint, message) == CapturedEndpoint(endpoint, message)

\* the identifier of the k-th deferred created after `counter`
RECURSIVE IdAfter(_, _)
IdAfter(counter, k) ==
    IF k = 0 THEN counter ELSE CreateDeferred(IdAfter(counter, k - 1))

\* runConsoleCommand called from a listener as the k-th request of this
\* handler, with the endpoint the listener finds: the message it posts
ListenerPost(at, k) ==
    [name |-> "api:run-console", hasRequestId |-> TRUE,
     requestId |-> IdAfter(idCounter, k), apiPointerId |-> 0, data |-> "help",
     source |-> at.source, origin |-> at.origin]

\* ... and the rejection of its promise when there is no endpoint to post to
ListenerFailure(k) ==
    Outcome(0, Call("runConsoleCommand", IdAfter(idCounter, k), 0, "help", Undefined, 0),
            "rejected", NoPayload, TypeError, 0)

\* the deferred of each such request is stored before the message is posted
RECURSIVE ListenerRequests(_, _)
ListenerRequests(table, k) ==
    IF k = 0 THEN table
    ELSE Put(ListenerRequests(table, k - 1), IdAfter(idCounter, k), OrphanDeferred)

\* a listener of the readiness event may bind the shell: "S" calls
\* setApplication(BoundShell)
BindsShell(callback) == callback = "S"
BoundShell == "base"
BindingCallbacks == {"L", "S"}

\* the invocations, in order, of listeners that bind the shell
Binding(invoked) == SelectSeq(invoked, LAMBDA v : BindsShell(v.callback))

\* this.#applicationInstance once the listeners have run
ShellAfterEmit(invoked) ==
    IF Binding(invoked) = <<>> THEN applicationInstance ELSE BoundShell

\* setApplication called from a listener: #lastIntent is still the one the
\* previous readiness message left, and is replayed if there is one
Replays(invoked) ==
    IF lastIntent = NoIntent THEN <<>>
    ELSE [k \in 1..Len(Binding(invoked)) |->
             Lifecycle(BoundShell, "onCreate", lastIntent)]

\* what the handler of api:ready does, in the order of the code's
\* statements, with what is visible at each of them
ReadyOrder(at, intent, invoked) ==
    <<[at |-> "endpoint", endpoint |-> at, lastIntent |-> lastIntent,
       intent |-> NoIntent]>>
    \o <<[at |-> "emit", endpoint |-> at, lastIntent |-> lastIntent,
          intent |-> NoIntent]>>
    \o (IF ShellAfterEmit(invoked) = NoApp THEN <<>>
        ELSE <<[at |-> "onCreate", endpoint |-> at, lastIntent |-> lastIntent,
                intent |-> intent]>>)
    \o <<[at |-> "lastIntent", endpoint |-> at, lastIntent |-> intent,
          intent |-> intent]>>

HandleReady(endpoint, message) ==
    \E published \in {emit(events, API_READY, <<>>)} :
    \E shell \in {ShellAfterEmit(published.invoked)} :
    \E n \in {Len(Issuing(published.invoked))} :
    LET intent == Intent(message.applicationId, message.action, message.params)
        at == EndpointAtEmit(endpoint, message)
        step == Step(API_READY, 0, message, NoFault,
                     IF at.source = Undefined
                     THEN [k \in 1..n |-> ListenerFailure(k)] ELSE <<>>,
                     Replays(published.invoked)
                        \o (IF shell = NoApp THEN <<>>
                            ELSE <<Lifecycle(shell, "onCreate", intent)>>),
                     IF at.source = Undefined
                     THEN NoPost ELSE [k \in 1..n |-> ListenerPost(at, k)],
                     <<Emit(API_READY, Undefined)>>)
    IN /\ idCounter + n <= MaxId
       /\ valuApplication' = CapturedEndpoint(endpoint, message)
       /\ events' = published.events
       /\ requests' = ListenerRequests(requests, n)
       /\ idCounter' = IdAfter(idCounter, n)
       /\ lastIntent' = intent
       /\ host' = message
       /\ applicationInstance' = shell
       /\ created' = IF shell = NoApp THEN created ELSE created \cup {shell}
       /\ last' = Published([step EXCEPT !.order = ReadyOrder(at, intent,
                                                              published.invoked)],
                            published)
       /\ UNCHANGED <<guidCounter, pending, handles>>

\* faulty variant: the action of the trigger is not looked at
HandleTriggerAnyAction(action, data) ==
    LET published == emit(events, ON_ROUTE, <<data>>)
        trigger == [action |-> action, data |-> data]
    IN /\ events' = published.events
       /\ last' = Published(
                     Step("api:trigger", 0, trigger, NoFault, <<>>, <<>>, NoPost,
                          <<Emit(ON_ROUTE, data)>>),
                     published)
       /\ UNCHANGED <<valuApplication, lastIntent, applicationInstance, requests,
                      idCounter, guidCounter, pending, handles, host, created>>

\* case 'api:trigger'
HandleTrigger(action, data) ==
    LET published == emit(events, ON_ROUTE, <<data>>)
        trigger == [action |-> action, data |-> data]
    IN /\ events' = IF action # ON_ROUTE THEN events ELSE published.events
       /\ last' = IF action # ON_ROUTE
                  THEN Step("api:trigger", 0, trigger, NoFault, <<>>, <<>>, NoPost, <<>>)
                  ELSE IF applicationInstance = NoApp
                  THEN Published(
                         Step("api:trigger", 0, trigger, NoFault, <<>>, <<>>, NoPost,
                              <<Emit(ON_ROUTE, data)>>),
                         published)
                  ELSE IF HasRouterCallback(applicationInstance)
                  THEN Published(
                         Step("api:trigger", 0, trigger, NoFault, <<>>,
                              <<Lifecycle(applicationInstance, "onUpdateRouterContext",
                                          Intent(Undefined, Undefined, data))>>,
                              NoPost, <<Emit(ON_ROUTE, data)>>),
                         published)
                  ELSE Published(
                         Step("api:trigger", 0, trigger, TypeError, <<>>, <<>>, NoPost,
                              <<Emit(ON_ROUTE, data)>>),
                         published)
       /\ UNCHANGED <<valuApplication, lastIntent, applicationInstance, requests,
                      idCounter, guidCounter, pending, handles, host, created>>

\* case 'api:new-intent'
HandleNewIntent(message) ==
    /\ last' = Step("api:new-intent", 0, message, NoFault, <<>>,
                    IF applicationInstance = NoApp THEN <<>>
                    ELSE <<Lifecycle(applicationInstance, "onNewIntent",
                                     Intent(message.applicationId, message.action,
                                            message.params))>>,
                    NoPost, <<>>)
    /\ UNCHANGED <<valuApplication, lastIntent, applicationInstance, requests,
                   idCounter, guidCounter, pending, handles, host, events, created>>

\* case 'api:run-console-completed'
HandleRunConsoleCompleted(requestId, message) ==
    LET deferred == Lookup(requests, requestId)
    IN /\ IF deferred.kind = "undefined"
          THEN /\ last' = Unrouted(Step("api:run-console-completed", Named(requestId), message,
                                        NoFault, <<>>, <<>>, NoPost, <<>>),
                                   requestId)
               /\ requests' = Delete(requests, requestId)
               /\ UNCHANGED <<pending, handles, guidCounter>>
          ELSE IF deferred.kind = "deferred"
          THEN /\ last' = Step("api:run-console-completed", requestId, message, NoFault,
                               Resolve(deferred.ref, message).settled,
                               <<>>, NoPost, <<>>)
               /\ handles' = Resolve(deferred.ref, message).handles
               /\ guidCounter' = Resolve(deferred.ref, message).guidCounter
               /\ pending' = Release(deferred.ref)
               /\ requests' = Delete(requests, requestId)
          ELSE /\ last' = Step("api:run-console-completed", requestId, message, TypeError,
                               <<>>, <<>>, NoPost, <<>>)
               /\ UNCHANGED <<requests, pending, handles, guidCounter>>
       /\ UNCHANGED <<valuApplication, lastIntent, applicationInstance, idCounter, host, events, created>>

\* case 'api:run-completed'
HandleRunCompleted(requestId, message) ==
    LET apiPointer == Lookup(requests, requestId)
        run == PostRunResult(apiPointer.ref, requestId, message)
    IN /\ IF apiPointer.kind = "undefined"
          THEN /\ last' = Unrouted(Step("api:run-completed", Named(requestId), message,
                                        NoFault, <<>>, <<>>, NoPost, <<>>),
                                   requestId)
               /\ UNCHANGED <<requests, pending, handles>>
          ELSE IF apiPointer.kind # "pointer"
          THEN /\ last' = Step("api:run-completed", requestId, message, TypeError,
                               <<>>, <<>>, NoPost, <<>>)
               /\ UNCHANGED <<requests, pending, handles>>
          ELSE /\ last' = Step("api:run-completed", requestId, message, run.fault,
                               run.settled, <<>>, NoPost, <<>>)
               /\ handles' = [handles EXCEPT ![apiPointer.ref].apiCalls = run.apiCalls]
               /\ pending' = run.pending
               /\ requests' = IF run.fault = NoFault
                              THEN Delete(requests, requestId)
                              ELSE requests
       /\ UNCHANGED <<valuApplication, lastIntent, applicationInstance, idCounter,
                      guidCounter, host, events, created>>

\* case 'api:pointer-created'
HandlePointerCreated(requestId, message) ==
    LET deferred == Lookup(requests, requestId)
    IN /\ IF deferred.kind = "undefined"
          THEN /\ last' = Unrouted(Step("api:pointer-created", Named(requestId), message,
                                        NoFault, <<>>, <<>>, NoPost, <<>>),
                                   requestId)
               /\ UNCHANGED <<requests, pending, handles, guidCounter>>
          ELSE IF deferred.kind = "deferred"
          THEN /\ last' = Step("api:pointer-created", requestId, message, NoFault,
                               Resolve(deferred.ref, message).settled,
                               <<>>, NoPost, <<>>)
               /\ handles' = Resolve(deferred.ref, message).handles
               /\ guidCounter' = Resolve(deferred.ref, message).guidCounter
               /\ pending' = Release(deferred.ref)
               /\ requests' = Delete(requests, requestId)
          ELSE /\ last' = Step("api:pointer-created", requestId, message, TypeError,
                               <<>>, <<>>, NoPost, <<>>)
               /\ UNCHANGED <<requests, pending, handles, guidCounter>>
       /\ UNCHANGED <<valuApplication, lastIntent, applicationInstance, idCounter, host, events, created>>

\* event.data?.target !== 'valuApi', or a name no case of the switch matches
IgnoredNames == {"api:unknown"}
HandledNames == {API_READY, "api:trigger", "api:new-intent",
                 "api:run-console-completed", "api:run-completed",
                 "api:pointer-created"}

HandleIgnored(target, name, requestId) ==
    /\ target # "valuApi" \/ name \notin HandledNames
    /\ last' = Step("ignored", NoId, NoPayload, NoFault, <<>>, <<>>, NoPost, <<>>)
    /\ UNCHANGED <<valuApplication, lastIntent, applicationInstance, requests,
                   idCounter, guidCounter, pending, handles, host, events, created>>

----------------------------------------------------------------------------
(* Subscriptions: ValuApi and APIPointer re-expose addEventListener and    *)
(* removeEventListener of their own EventEmitter; emit is the publish of   *)
(* an EventEmitter used on its own.                                        *)

AddEventListener(eventName, callback, once) ==
    /\ ListenerCount(events) < MaxListeners
    /\ events' = addEventListener(events, eventName, callback, once)
    /\ last' = Step("addEventListener", 0, NoPayload, NoFault, <<>>, <<>>, NoPost, <<>>)
    /\ UNCHANGED <<valuApplication, lastIntent, applicationInstance, requests,
                   idCounter, guidCounter, pending, handles, host, created>>

RemoveEventListener(eventName, callback) ==
    /\ events' = removeEventListener(events, eventName, callback)
    /\ last' = Step("removeEventListener", 0,
                    [name |-> eventName, callback |-> callback,
                     removed |-> ListenerCount(events)
                                   - ListenerCount(removeEventListener(events, eventName,
                                                                       callback))],
                    NoFault, <<>>, <<>>, NoPost, <<>>)
    /\ UNCHANGED <<valuApplication, lastIntent, applicationInstance, requests,
                   idCounter, guidCounter, pending, handles, host, created>>

EmitEvent(eventName, parameters) ==
    LET published == emit(events, eventName, parameters)
    IN /\ events' = published.events
       /\ last' = Published(
                     Step("emit", 0, [name |-> eventName, args |-> parameters],
                          NoFault, <<>>, <<>>, NoPost, <<>>),
                     published)
       /\ UNCHANGED <<valuApplication, lastIntent, applicationInstance, requests,
                      idCounter, guidCounter, pending, handles, host, created>>

\* APIPointer.addEventListener
\* the listeners held by the handles, all together
PointerListenerCount ==
    LET RECURSIVE Sum(_)
        Sum(h) == IF h = 0 THEN 0 ELSE ListenerCount(handles[h].events) + Sum(h - 1)
    IN Sum(Len(handles))

PointerAddEventListener(h, eventName, callback, once) ==
    /\ PointerListenerCount < MaxPending
    /\ handles' = [handles EXCEPT ![h].events =
                       addEventListener(@, eventName, callback, once)]
    /\ last' = Step("addEventListener", 0, NoPayload, NoFault, <<>>, <<>>, NoPost, <<>>)
    /\ UNCHANGED <<valuApplication, lastIntent, applicationInstance, requests,
                   idCounter, guidCounter, pending, host, events, created>>

\* an inbound message that delivers the event eventName of a module to the
\* handle h, {target: 'valuApi', name: 'api:event', message: {apiPointerId,
\* event}}: no case of the switch of #handleParentMessage takes it
HandleModuleEvent(h, eventName) ==
    /\ last' = Step("api:event", 0,
                    [apiPointerId |-> handles[h].guid, event |-> eventName],
                    NoFault, <<>>, <<>>, NoPost, <<>>)
    /\ UNCHANGED <<valuApplication, lastIntent, applicationInstance, requests,
                   idCounter, guidCounter, pending, handles, host, events, created>>

----------------------------------------------------------------------------
(* The state after `new ValuApi()`, and the steps.                         *)

\* the launch: the first api:ready the host sends
Launch == CHOOSE r \in ReadyEvents : r.message.action = Undefined

\* a reply handler reads the payload only after it found an own entry under
\* the identifier; for every other identifier one payload stands for all
PayloadsFor(requestId) ==
    IF requestId \in DOMAIN requests THEN Payloads
    ELSE {CHOOSE m \in Payloads : m.error = Undefined}

TheIntent == Intent("videochat", Undefined, Undefined)

EventNames == {"e", "f"}
ModuleEvents == {"app-open"}

Init ==
    /\ valuApplication = [id |-> Undefined, source |-> Undefined, origin |-> Undefined]
    /\ lastIntent = NoIntent
    /\ applicationInstance = NoApp
    /\ requests = EmptyTable
    /\ idCounter = 0
    /\ guidCounter = 0
    /\ pending = [s \in Slots |-> Free]
    /\ handles = <<>>
    /\ host = NoMsg
    /\ events = EmptyEvents
    /\ created = {}
    /\ last = Step("new", 0, NoPayload, NoFault, <<>>, <<>>, NoPost, <<>>)

Next ==
    \/ \E n \in ApiNames, v \in ReqVersions : GetApi(n, v)
    \/ SendIntent(TheIntent)
    \/ CallService(TheIntent)
    \/ RunConsoleCommand("bad")
    \/ \E p \in Paths : PushRoute(p)
    \/ \E p \in Paths : ReplaceRoute(p)
    \/ \E a \in Shells : SetApplication(a)
    \/ \E h \in 1..Len(handles) : Run(h)
    \/ \E r \in ReadyEvents : HandleReady(r.endpoint, r.message)
    \/ \E a \in {ON_ROUTE, "other"}, d \in Paths : HandleTrigger(a, d)
    \/ \E m \in IntentMsgs : HandleNewIntent(m)
    \/ \E i \in WireIds : \E m \in PayloadsFor(i) : HandleRunConsoleCompleted(i, m)
    \/ \E i \in WireIds : \E m \in PayloadsFor(i) : HandleRunCompleted(i, m)
    \/ \E i \in WireIds : \E m \in PayloadsFor(i) : HandlePointerCreated(i, m)
    \/ \E t \in {"valuApi", "other"}, n \in HandledNames \cup IgnoredNames,
          i \in WireIds : HandleIgnored(t, n, i)
    \/ \E n \in EventNames \cup {API_READY, ON_ROUTE}, c \in Callbacks, o \in BOOLEAN :
          AddEventListener(n, c, o)
    \/ \E n \in EventNames \cup {Undefined}, c \in Callbacks \cup {Undefined} :
          RemoveEventListener(n, c)
    \/ \E n \in EventNames : EmitEvent(n, <<"p">>)
    \/ \E h \in 1..Len(handles), n \in ModuleEvents, o \in BOOLEAN :
          PointerAddEventListener(h, n, "L", o)
    \/ \E h \in 1..Len(handles), n \in ModuleEvents : HandleModuleEvent(h, n)

Spec == Init /\ [][Next]_vars

\* the request/response correlation layer on its own: the operations that
\* issue a request, the readiness handshake and the three reply kinds
NextRequests ==
    \/ \E n \in ApiNames, v \in ReqVersions : GetApi(n, v)
    \/ SendIntent(TheIntent)
    \/ CallService(TheIntent)
    \/ RunConsoleCommand("bad")
    \/ \E h \in 1..Len(handles) : Run(h)
    \/ HandleReady(Launch.endpoint, Launch.message)
    \/ \E i \in WireIds : \E m \in PayloadsFor(i) : HandleRunConsoleCompleted(i, m)
    \/ \E i \in WireIds : \E m \in PayloadsFor(i) : HandleRunCompleted(i, m)
    \/ \E i \in WireIds : \E m \in PayloadsFor(i) : HandlePointerCreated(i, m)

SpecRequests == Init /\ [][NextRequests]_vars

\* a reply that reports success: no error field
Completed == CHOOSE m \in Payloads : m.error = Undefined

\* the requests the host answers by a reply of their own kind, with a host
\* and an application that keep going: a step that is possible is
\* eventually taken
NextAnswered ==
    \/ \E n \in ApiNames : GetApi(n, Undefined)
    \/ RunConsoleCommand("bad")
    \/ \E h \in 1..Len(handles) : Run(h)
    \/ HandleReady(Launch.endpoint, Launch.message)
    \/ \E i \in Ids : HandleRunConsoleCompleted(i, Completed)
    \/ \E i \in Ids : HandleRunCompleted(i, Completed)
    \/ \E i \in Ids : HandlePointerCreated(i, Completed)

SpecAnsweredFair == Init /\ [][NextAnswered]_vars /\ WF_vars(NextAnswered)

\* the launch and a later readiness message, with listeners of the
\* readiness event and a shell
NextReady ==
    \/ \E r \in ReadyEvents : HandleReady(r.endpoint, r.message)
    \/ \E c \in ReadyCallbacks, o \in BOOLEAN : AddEventListener(API_READY, c, o)
    \/ \E a \in Shells : SetApplication(a)

SpecReady == Init /\ [][NextReady]_vars

\* readiness messages with listeners that bind the shell while the
\* readiness event is being published
NextBinding ==
    \/ \E r \in ReadyEvents : HandleReady(r.endpoint, r.message)
    \/ \E c \in BindingCallbacks, o \in BOOLEAN : AddEventListener(API_READY, c, o)
    \/ \E a \in Shells : SetApplication(a)
    \/ \E m \in IntentMsgs : HandleNewIntent(m)

SpecBinding == Init /\ [][NextBinding]_vars

\* the emitter with listeners on an event name and on the two meta-event
\* names
MetaNames == {"f", "__before__", "__after__"}

NextMeta ==
    \/ \E n \in MetaNames, c \in Callbacks, o \in BOOLEAN : AddEventListener(n, c, o)
    \/ \E n \in MetaNames : RemoveEventListener(n, Undefined)
    \/ \E n \in MetaNames : EmitEvent(n, <<"p">>)

SpecMeta == Init /\ [][NextMeta]_vars

\* subscribing and unsubscribing, with the empty string among the event
\* names
NamesGiven == {"e", ""}
CallbacksGiven == {"L", "K"}

NextUnsubscribe ==
    \/ \E n \in NamesGiven, c \in CallbacksGiven, o \in BOOLEAN :
          AddEventListener(n, c, o)
    \/ \E n \in NamesGiven \cup {Undefined}, c \in CallbacksGiven \cup {Undefined} :
          RemoveEventListener(n, c)

SpecUnsubscribe == Init /\ [][NextUnsubscribe]_vars

\* the lifecycle and routing surface on its own
NextLifecycle ==
    \/ \E a \in Shells : SetApplication(a)
    \/ \E r \in ReadyEvents : HandleReady(r.endpoint, r.message)
    \/ \E a \in {ON_ROUTE, "other"}, d \in Paths : HandleTrigger(a, d)
    \/ \E m \in IntentMsgs : HandleNewIntent(m)
    \/ \E p \in Paths : PushRoute(p)
    \/ \E p \in Paths : ReplaceRoute(p)
    \/ \E t \in {"valuApi", "other"}, n \in HandledNames \cup IgnoredNames,
          i \in WireIds : HandleIgnored(t, n, i)
    \/ \E n \in {API_READY, ON_ROUTE}, o \in BOOLEAN : AddEventListener(n, "L", o)

SpecLifecycle == Init /\ [][NextLifecycle]_vars

\* an EventEmitter on its own
NextEvents ==
    \/ \E n \in EventNames, c \in Callbacks, o \in BOOLEAN : AddEventListener(n, c, o)
    \/ \E n \in EventNames \cup {Undefined}, c \in Callbacks \cup {Undefined} :
          RemoveEventListener(n, c)
    \/ \E n \in EventNames : EmitEvent(n, <<"p">>)

SpecEvents == Init /\ [][NextEvents]_vars

\* handles, their listeners and the events of their module
NextModuleEvents ==
    \/ \E n \in ApiNames : GetApi(n, Undefined)
    \/ HandleReady(Launch.endpoint, Launch.message)
    \/ \E i \in WireIds : \E m \in PayloadsFor(i) : HandlePointerCreated(i, m)
    \/ \E h \in 1..Len(handles), n \in ModuleEvents, o \in BOOLEAN :
          PointerAddEventListener(h, n, "L", o)
    \/ \E h \in 1..Len(handles), n \in ModuleEvents : HandleModuleEvent(h, n)

SpecModuleEvents == Init /\ [][NextModuleEvents]_vars

\* the routing commands next to outstanding requests
NextRoutes ==
    \/ \E n \in ApiNames, v \in ReqVersions : GetApi(n, v)
    \/ RunConsoleCommand("bad")
    \/ \E h \in 1..Len(handles) : Run(h)
    \/ HandleReady(Launch.endpoint, Launch.message)
    \/ \E i \in WireIds : \E m \in PayloadsFor(i) : HandlePointerCreated(i, m)
    \/ \E p \in Paths : PushRoute(p)
    \/ \E p \in Paths : ReplaceRoute(p)

SpecRoutes == Init /\ [][NextRoutes]_vars

\* the messages the handler passes over, next to an endpoint, a shell,
\* listeners and an outstanding request
NextIgnored ==
    \/ HandleReady(Launch.endpoint, Launch.message)
    \/ SetApplication("base")
    \/ \E o \in BOOLEAN : AddEventListener(ON_ROUTE, "L", o)
    \/ RunConsoleCommand("bad")
    \/ \E a \in {ON_ROUTE, "other"}, d \in Paths : HandleTrigger(a, d)
    \/ \E t \in {"valuApi", "other"}, n \in HandledNames \cup IgnoredNames,
          i \in WireIds : HandleIgnored(t, n, i)

SpecIgnored == Init /\ [][NextIgnored]_vars

----------------------------------------------------------------------------
(* Intent.isValid, on values of every shape a caller can pass.             *)

\* a JavaScript value with the tag `typeof` reports for it (null reports
\* "object")
Value(t, v) == [t |-> t, v |-> v]
UndefinedValue == Value("undefined", "undefined")
Values ==
    { Value("string", "app"), Value("string", ""), Value("number", "7"),
      Value("object", "null"), Value("object", "{}"), UndefinedValue }

\* new Intent(applicationId, action): the action parameter defaults to
\* ACTION_OPEN when it is undefined, and only then
NewIntent(applicationId, action) ==
    [proto |-> "Intent",
     applicationId |-> applicationId,
     action |-> IF action = UndefinedValue THEN Value("string", ACTION_OPEN)
                ELSE action]

\* the object literal {applicationId, action}
PlainObject(applicationId, action) ==
    [proto |-> "Object", applicationId |-> applicationId, action |-> action]

\* a string, a number, null or undefined: `instanceof` walks the prototype
\* chain of the wrapper, if there is one, and the two fields read undefined
Primitive(v) ==
    [proto |-> IF v.t = "string" THEN "String"
               ELSE IF v.t = "number" THEN "Number" ELSE "none",
     applicationId |-> UndefinedValue, action |-> UndefinedValue]

Candidates ==
    {NewIntent(a, b) : a \in Values, b \in Values}
        \cup {PlainObject(a, b) : a \in Values, b \in Values}
        \cup {Primitive(v) : v \in Values \ {Value("object", "{}")}}

\* obj instanceof Intent
InstanceOfIntent(obj) == obj.proto = "Intent"

\* faulty variant: the fields alone decide
isValidByFields(obj) ==
    /\ obj.applicationId.t = "string"
    /\ obj.action.t = "string"

isValid(obj) ==
    /\ InstanceOfIntent(obj)
    /\ obj.applicationId.t = "string"
    /\ obj.action.t = "string"

\* a caller holds a value ...
Holding(obj) ==
    Step("value", 0, obj, NoFault, <<>>, <<>>, NoPost, <<>>)

\* ... and passes it to Intent.isValid
IsValid ==
    /\ last.op = "value"
    /\ last' = [Step("Intent.isValid", 0, last.message, NoFault, <<>>, <<>>,
                     NoPost, <<>>) EXCEPT !.returned = isValid(last.message)]
    /\ UNCHANGED <<valuApplication, lastIntent, applicationInstance, requests,
                   idCounter, guidCounter, pending, handles, host, events, created>>

InitIntent ==
    /\ \E obj \in Candidates : last = Holding(obj)
    /\ valuApplication = [id |-> Undefined, source |-> Undefined, origin |-> Undefined]
    /\ lastIntent = NoIntent
    /\ applicationInstance = NoApp
    /\ requests = EmptyTable
    /\ idCounter = 0
    /\ guidCounter = 0
    /\ pending = [s \in Slots |-> Free]
    /\ handles = <<>>
    /\ host = NoMsg
    /\ events = EmptyEvents
    /\ created = {}

NextIntent == IsValid

SpecIntent == InitIntent /\ [][NextIntent]_vars

----------------------------------------------------------------------------
(* Vocabulary of the properties.                                           *)

ReplyNames == {"api:run-console-completed", "api:run-completed",
               "api:pointer-created"}
ClientOps == {"getApi", "sendIntent", "callService", "runConsoleCommand"}
RequestOps == ClientOps \cup {"run"}

Outstanding == {s \in Slots : pending[s].op # "free"}

\* the step just taken handled a reply that found the deferred of the
\* suspended caller in slot s, whose operation is op
Answered(name, op, s) ==
    /\ last'.op = name
    /\ last'.id \in DOMAIN requests
    /\ requests[last'.id] = Deferred(s)
    /\ pending[s].op = op

----------------------------------------------------------------------------
(* C1 .. C10                                                               *)

\* C1: an invoke issued on a handle is outstanding under an identifier of
\* its own (recorded for its handle in the top-level table, a caller waiting
\* on it), two outstanding invokes of one handle never share an identifier,
\* and an invoke is settled only by the function-call reply that carries its
\* identifier, with that reply's payload.
C1_InvokeSettledByOwnReply ==
    /\ last.op = "run" =>
          /\ last.fault = NoFault
          /\ \E s \in Outstanding : pending[s].op = "run" /\ pending[s].id = last.id
          /\ Lookup(requests, last.id).kind = "pointer"
    /\ \A s, t \in Outstanding :
          (s # t /\ pending[s].op = "run" /\ pending[t].op = "run"
               /\ pending[s].h = pending[t].h)
          => pending[s].id # pending[t].id
    /\ \A k \in 1..Len(last.settled) :
          (last.settled[k].op = "run" /\ last.op # "run")
          => /\ last.op = "api:run-completed"
             /\ last.settled[k].id = last.id
             /\ last.settled[k].value = last.message

\* C2: a reply (of any of the three reply kinds) whose identifier is not
\* pending in the top-level table nor in any handle's sub-table is dropped:
\* no fault, no waiter settled, both kinds of table left as they were.
C2_UnroutableReplyDropped ==
    [][ (last'.op \in ReplyNames
           /\ last'.id \notin DOMAIN requests
           /\ last'.id \notin SubTableIds)
        => /\ last'.fault = NoFault
           /\ last'.settled = <<>>
           /\ requests' = requests
           /\ handles' = handles
           /\ pending' = pending ]_vars

\* C3: after every step the outstanding requests of the client have
\* pairwise distinct identifiers, as have the outstanding invokes of one
\* handle, and each outstanding request still owns the entry recorded under
\* its identifier; and a request-issuing operation never takes an
\* identifier that is still in the top-level table or in a sub-table.
C3_DistinctIdentifiers ==
    [][ /\ \A s, t \in Slots :
             (s # t /\ pending'[s].op \in ClientOps /\ pending'[t].op \in ClientOps)
             => pending'[s].id # pending'[t].id
        /\ \A s, t \in Slots :
             (s # t /\ pending'[s].op = "run" /\ pending'[t].op = "run"
                  /\ pending'[s].h = pending'[t].h)
             => pending'[s].id # pending'[t].id
        /\ \A s \in Slots :
             pending'[s].op \in ClientOps
             => /\ pending'[s].id \in DOMAIN requests'
                /\ requests'[pending'[s].id] = Deferred(s)
        /\ last'.op \in RequestOps
             => /\ last'.id \notin DOMAIN requests
                /\ last'.id \notin SubTableIds ]_vars

\* C3 witness: two requests of the client are outstanding at once
C3_Witness ==
    \E s, t \in Outstanding :
        s # t /\ pending[s].op \in ClientOps /\ pending[t].op \in ClientOps

\* C4: a pointer-created reply without an error field, carrying version v,
\* completes the pending getApi with a handle whose version is v, whatever
\* version was requested.
C4_HostVersionWins ==
    [][ \A s \in Slots :
          (Answered("api:pointer-created", "getApi", s)
             /\ last'.message.error = Undefined)
          => /\ Len(last'.settled) = 1
             /\ last'.settled[1].slot = s
             /\ last'.settled[1].outcome = "resolved"
             /\ last'.settled[1].h \in 1..Len(handles')
             /\ handles'[last'.settled[1].h].version = last'.message.version ]_vars

\* C4 witness: version 2 was requested, the host assigned 3, the handle says 3
C4_Witness ==
    /\ last.op = "api:pointer-created"
    /\ Len(last.settled) = 1
    /\ last.settled[1].op = "getApi"
    /\ last.settled[1].outcome = "resolved"
    /\ last.settled[1].reqVersion = "2"
    /\ last.message.version = "3"
    /\ handles[last.settled[1].h].version = "3"

\* C5 as stated: a pointer-created reply that carries an error field m
\* fails the pending getApi with m, returns no handle and frees the
\* identifier.
C5_ErrorFieldRejects ==
    [][ \A s \in Slots :
          (Answered("api:pointer-created", "getApi", s)
             /\ last'.message.error # Undefined)
          => /\ Len(last'.settled) = 1
             /\ last'.settled[1].slot = s
             /\ last'.settled[1].outcome = "rejected"
             /\ last'.settled[1].err = last'.message.error
             /\ handles' = handles
             /\ last'.id \notin DOMAIN requests' ]_vars

\* C5 amended: a pointer-created reply that carries a truthy (non-empty)
\* error m fails the pending getApi with exactly m, returns no handle and
\* frees the identifier.
C5_TruthyErrorRejects ==
    [][ \A s \in Slots :
          (Answered("api:pointer-created", "getApi", s)
             /\ Truthy(last'.message.error))
          => /\ Len(last'.settled) = 1
             /\ last'.settled[1].slot = s
             /\ last'.settled[1].outcome = "rejected"
             /\ last'.settled[1].err = last'.message.error
             /\ last'.settled[1].h = 0
             /\ handles' = handles
             /\ pending'[s] = Free
             /\ last'.id \notin DOMAIN requests' ]_vars

\* C5 witness: getApi failed with "not found"
C5_Witness ==
    /\ last.op = "api:pointer-created"
    /\ Len(last.settled) = 1
    /\ last.settled[1].op = "getApi"
    /\ last.settled[1].outcome = "rejected"
    /\ last.settled[1].err = "not found"
    /\ last.id \notin DOMAIN requests

\* C6: once a function-call reply carrying identifier i has been handled,
\* the invoke recorded under i in its handle's sub-table has been settled
\* (none is left there), rejected with the error when the reply carries one
\* and resolved with the payload otherwise; no other invoke is settled.
C6_ReplySettlesItsInvoke ==
    last.op = "api:run-completed"
    => /\ last.id \notin SubTableIds
       /\ \A k \in 1..Len(last.settled) :
             /\ last.settled[k].id = last.id
             /\ IF last.message.error # Undefined
                THEN /\ last.settled[k].outcome = "rejected"
                     /\ last.settled[k].err = last.message.error
                ELSE /\ last.settled[k].outcome = "resolved"
                     /\ last.settled[k].value = last.message

\* C7: a console reply for a pending runConsoleCommand resolves it with
\* exactly the payload of the reply, success value and error text alike,
\* and no inbound message ever rejects a pending runConsoleCommand.
C7_ConsoleAlwaysResolves ==
    [][ /\ \A s \in Slots :
             Answered("api:run-console-completed", "runConsoleCommand", s)
             => /\ Len(last'.settled) = 1
                /\ last'.settled[1].slot = s
                /\ last'.settled[1].outcome = "resolved"
                /\ last'.settled[1].value = last'.message
        /\ \A k \in 1..Len(last'.settled) :
             (last'.settled[k].op = "runConsoleCommand" /\ last'.settled[k].slot # 0)
             => last'.settled[k].outcome = "resolved" ]_vars

\* C7 witness: the error text came back as the resolved value
C7_Witness ==
    /\ last.op = "api:run-console-completed"
    /\ Len(last.settled) = 1
    /\ last.settled[1].op = "runConsoleCommand"
    /\ last.settled[1].outcome = "resolved"
    /\ last.settled[1].value.body = "ERROR: unknown command"

\* C8: a reply that settles a pending sendIntent or callService rejects it
\* with the reply's error when the reply carries one, and resolves it with
\* the payload otherwise.
C8_IntentErrorRejects ==
    \A k \in 1..Len(last.settled) :
        (last.settled[k].op \in {"sendIntent", "callService"}
            /\ last.op \in ReplyNames)
        => IF last.message.error # Undefined
           THEN /\ last.settled[k].outcome = "rejected"
                /\ last.settled[k].err = last.message.error
           ELSE /\ last.settled[k].outcome = "resolved"
                /\ last.settled[k].value = last.message

\* C9: a request-issuing operation attempted while no endpoint has been
\* captured settles with a failure at once, and no caller is left waiting
\* while the client is disconnected.
C9_DisconnectedFailsFast ==
    /\ (last.op \in RequestOps /\ ~connected)
       => /\ Len(last.settled) = 1
          /\ last.settled[1].op = last.op
          /\ last.settled[1].id = last.id
          /\ last.settled[1].outcome \in {"rejected", "thrown"}
          /\ last.settled[1].err = TypeError
    /\ ~connected => Outstanding = {}

\* C9 witness: sendIntent before any api:ready was rejected
C9_Witness ==
    /\ ~connected
    /\ last.op = "sendIntent"
    /\ Len(last.settled) = 1
    /\ last.settled[1].outcome = "rejected"

\* C10: setApplication after a readiness message invokes onCreate of the
\* shell it was given, within the call, with the Intent of the most recent
\* readiness message; before any readiness message it invokes nothing.
C10_ReplayLaunchIntent ==
    last.op = "setApplication"
    => IF host # NoMsg
       THEN last.lifecycle =
               <<Lifecycle(applicationInstance, "onCreate",
                           [applicationId |-> host.applicationId,
                            action |-> IF host.action = Undefined
                                       THEN "open" ELSE host.action,
                            params |-> IF host.params = Undefined
                                       THEN "{}" ELSE host.params])>>
       ELSE last.lifecycle = <<>>

\* C10 witness: a shell bound after the launch got the launch intent
C10_Witness ==
    /\ last.op = "setApplication"
    /\ host # NoMsg
    /\ Len(last.lifecycle) = 1
    /\ last.lifecycle[1].method = "onCreate"
    /\ last.lifecycle[1].intent.action = "view"

----------------------------------------------------------------------------
(* C11 .. C20                                                              *)

\* C11: a new-intent message handled while a shell is bound invokes the
\* shell's onNewIntent with the Intent built from the payload, and a reply
\* carrying what onNewIntent returned is posted to the host.
C11_NewIntentReplied ==
    (last.op = "api:new-intent" /\ applicationInstance # NoApp)
    => /\ last.lifecycle =
             <<Lifecycle(applicationInstance, "onNewIntent",
                         Intent(last.message.applicationId, last.message.action,
                                last.message.params))>>
       /\ Len(last.posted) = 1

\* C12: onNewIntent is invoked only on a shell whose onCreate has been
\* invoked before, and onCreate is never invoked on a shell whose onCreate
\* has been invoked already.
C12_CreateOnceThenNewIntents ==
    [][ \A k \in 1..Len(last'.lifecycle) :
          /\ last'.lifecycle[k].method = "onNewIntent"
               => last'.lifecycle[k].shell \in created
          /\ last'.lifecycle[k].method = "onCreate"
               => last'.lifecycle[k].shell \notin created ]_vars

\* C13: once an endpoint has been captured no step changes its source or
\* its origin, and every message a step posts goes to that endpoint.
C13_EndpointFixedByFirstReady ==
    [][ connected
        => /\ valuApplication'.source = valuApplication.source
           /\ valuApplication'.origin = valuApplication.origin
           /\ \A k \in 1..Len(last'.posted) :
                 /\ last'.posted[k].source = valuApplication.source
                 /\ last'.posted[k].origin = valuApplication.origin ]_vars

\* C14: connected is false as long as no readiness message has been
\* handled, true once one has been, and never goes from true to false.
C14_ConnectedSinceFirstReady ==
    [][ /\ connected' <=> host' # NoMsg
        /\ connected => connected' ]_vars

\* C14 witness: a second readiness message from another source and origin
\* has been handled and the client is connected
C14_Witness ==
    /\ last.op = API_READY
    /\ valuApplication.source = "hostB"
    /\ connected

\* C15: a message with another target tag, a message of a kind that is not
\* recognized, and an api:trigger whose action is not on_route, leave the
\* endpoint, the last intent, the bound shell, the pending tables and the
\* listener lists as they were, publish nothing, invoke no listener and no
\* lifecycle method, post nothing and raise no fault.
C15_ForeignMessagesIgnored ==
    [][ (\/ last'.op = "ignored"
         \/ (last'.op = "api:trigger" /\ last'.message.action # ON_ROUTE))
        => /\ UNCHANGED <<valuApplication, lastIntent, applicationInstance, requests,
                          pending, handles, events, created, idCounter>>
           /\ last'.emitted = <<>>
           /\ last'.invoked = <<>>
           /\ last'.lifecycle = <<>>
           /\ last'.settled = <<>>
           /\ last'.posted = NoPost
           /\ last'.fault = NoFault ]_vars

\* C15 witness: a trigger with another action was passed over while a shell
\* was bound, a routing listener subscribed and a request outstanding
C15_Witness ==
    /\ last.op = "api:trigger"
    /\ last.message.action = "other"
    /\ applicationInstance # NoApp
    /\ Listeners(events, ON_ROUTE) # <<>>
    /\ Outstanding # {}
    /\ connected

\* C16: pushRoute(path) and replaceRoute(path) called while connected post
\* exactly one api:run-command message with the command's own name and
\* data = path and no request identifier, settle and await nothing, and
\* leave the top-level table and every sub-table as they were.
C16_RouteCommandsFireAndForget ==
    [][ (last'.op \in {"pushRoute", "replaceRoute"} /\ connected)
        => /\ Len(last'.posted) = 1
           /\ last'.posted[1].name = "api:run-command"
           /\ last'.posted[1].data = [command |-> last'.op, data |-> last'.message]
           /\ ~last'.posted[1].hasRequestId
           /\ last'.fault = NoFault
           /\ last'.settled = <<>>
           /\ requests' = requests
           /\ handles' = handles
           /\ pending' = pending
           /\ idCounter' = idCounter ]_vars

\* C16 witness: replaceRoute was posted while a request was outstanding and
\* a handle held an entry in its sub-table
C16_Witness ==
    /\ last.op = "replaceRoute"
    /\ connected
    /\ Len(last.posted) = 1
    /\ DOMAIN requests # {}
    /\ SubTableIds # {}

\* C17: once a message delivering a module event to a handle's id has been
\* handled, every listener subscribed for that event name on that handle
\* has been invoked, and no listener of another handle has been.
C17_ModuleEventReachesItsHandle ==
    last.op = "api:event"
    => \A h \in 1..Len(handles) :
          LET subscribed == Listeners(handles[h].events, last.message.event)
          IN IF handles[h].guid = last.message.apiPointerId
             THEN \A k \in 1..Len(subscribed) :
                     \E j \in 1..Len(last.invoked) :
                        last.invoked[j].callback = subscribed[k].callback
             ELSE last.invoked = <<>> \/ subscribed = <<>>

\* C18: the handle getApi returns has, as its id, the module-instance id
\* that getApi sent in the create-pointer request, the id of a handle never
\* changes, and an api:run request carries that id as apiPointerId.
C18_HandleIdIsRegisteredId ==
    [][ /\ \A s \in Slots :
             (Answered("api:pointer-created", "getApi", s)
                /\ Len(handles') = Len(handles) + 1)
             => handles'[Len(handles')].guid = pending[s].guid
        /\ \A h \in 1..Len(handles) : handles'[h].guid = handles[h].guid
        /\ \A k \in 1..Len(last'.posted) :
             last'.posted[k].name = "api:run"
             => /\ Lookup(requests', last'.id).kind = "pointer"
                /\ last'.posted[k].apiPointerId =
                      handles[requests'[last'.id].ref].guid ]_vars

\* the listeners of eventName among the invocations of a publish
InvokedOn(invoked, eventName) == SelectSeq(invoked, LAMBDA v : v.name = eventName)

\* no listener invoked by the publish unsubscribes from eventName
Undisturbed(invoked, eventName) ==
    \A j \in 1..Len(invoked) :
        \/ Unsubscribes(invoked[j].callback) = <<>>
        \/ Unsubscribes(invoked[j].callback)[1] # eventName

\* the publish invoked exactly the listeners held in list, one by one
InvokedExactly(invoked, list) ==
    /\ Len(invoked) = Len(list)
    /\ \A k \in 1..Len(list) :
          /\ invoked[k].callback = list[k].callback
          /\ invoked[k].once = list[k].once

Persistent(list) == SelectSeq(list, LAMBDA l : ~l.once)

\* a listener invoked by the publish unsubscribes callback from eventName
Unsubscribed(invoked, eventName, callback) ==
    \E j \in 1..Len(invoked) :
        Unsubscribes(invoked[j].callback) = <<eventName, callback>>

\* the once-entries of a list, or the invocations of once-entries
Once(list) == SelectSeq(list, LAMBDA l : l.once)

\* C19: every once-entry a publish of e invoked is gone from the list of e
\* when the publish completes, so that no later publish invokes it again,
\* and the publish invokes every persistent entry of e, one time each (the
\* entries of a callback an invoked listener unsubscribed from e set aside).
C19_OnceListenersFireOnce ==
    [][ \A n \in EventNames :
          (last'.op = "emit" /\ last'.message.name = n)
          => LET invoked == InvokedOn(last'.invoked, n)
                 list == Listeners(events, n)
             IN /\ Len(Once(Listeners(events', n))) + Len(Once(invoked))
                      <= Len(Once(list))
                /\ \A c \in Callbacks :
                      \/ Unsubscribed(invoked, n, c)
                      \/ Len(SelectSeq(Persistent(invoked), LAMBDA v : v.callback = c))
                           = Len(SelectSeq(Persistent(list), LAMBDA l : l.callback = c)) ]_vars

\* C20: when a listener invoked by the publish of e unsubscribes a callback
\* from another event name f, the publish of e still invokes every listener
\* registered for e when it started, one time each in registration order,
\* the list of e loses nothing but its once-listeners, and the list of f
\* loses exactly the entries of that callback.
C20_UnsubscribeElsewhereLeavesDispatch ==
    [][ \A n \in EventNames :
          (last'.op = "emit" /\ last'.message.name = n
              /\ Undisturbed(last'.invoked, n)
              /\ \E j \in 1..Len(last'.invoked) :
                     /\ last'.invoked[j].name = n
                     /\ Unsubscribes(last'.invoked[j].callback) # <<>>)
          => /\ InvokedExactly(InvokedOn(last'.invoked, n), Listeners(events, n))
             /\ Listeners(events', n) = Persistent(Listeners(events, n))
             /\ \A f \in EventNames \ {n} :
                   Listeners(events', f) =
                      SelectSeq(Listeners(events, f),
                                LAMBDA l : ~Unsubscribed(last'.invoked, f, l.callback)) ]_vars

\* C20 witness: during the publish of e the listener U removed L from the
\* list of f, and L, registered for e after U, was invoked all the same
C20_Witness ==
    /\ last.op = "emit"
    /\ last.message.name = "e"
    /\ \E j, k \in 1..Len(last.invoked) :
          /\ j < k
          /\ last.invoked[j].callback = "U"
          /\ last.invoked[j].name = "e"
          /\ last.invoked[j].removed >= 1
          /\ last.invoked[k].callback = "L"
          /\ last.invoked[k].name = "e"

----------------------------------------------------------------------------
(* C21 .. C30                                                              *)

\* C21: a step settles a caller only for the request that caller is
\* suspended on, after which the caller is suspended no longer and the
\* identifier is out of the top-level table; and a reply of any kind that
\* carries an identifier issued earlier and no longer in the table settles
\* nobody, raises no fault and leaves callers and tables as they were.
C21_SettledAtMostOnce ==
    [][ /\ \A k \in 1..Len(last'.settled) :
             last'.settled[k].slot # 0
             => /\ pending[last'.settled[k].slot].op \in RequestOps
                /\ pending[last'.settled[k].slot].op = last'.settled[k].op
                /\ pending[last'.settled[k].slot].id = last'.settled[k].id
                /\ pending'[last'.settled[k].slot] = Free
                /\ last'.settled[k].id \notin DOMAIN requests'
        /\ (last'.op \in ReplyNames /\ last'.retired)
             => /\ last'.settled = <<>>
                /\ last'.fault = NoFault
                /\ UNCHANGED <<requests, pending, handles>> ]_vars

\* C21 witness: a getApi was settled with a handle, nothing is pending, and
\* a further pointer-created reply has been dropped
C21_Witness ==
    /\ last.op = "api:pointer-created"
    /\ last.retired
    /\ last.settled = <<>>
    /\ Len(handles) >= 1
    /\ DOMAIN requests = {}
    /\ Outstanding = {}

\* the step just taken handled, without fault, the reply of the matching
\* kind for the request issued under identifier i
Delivered(i) ==
    /\ last.id = i
    /\ last.fault = NoFault
    /\ \/ last.op = "api:run-completed"
       \/ /\ last.op = "api:pointer-created"
          /\ Len(last.settled) = 1
          /\ last.settled[1].op = "getApi"
       \/ /\ last.op = "api:run-console-completed"
          /\ Len(last.settled) = 1
          /\ last.settled[1].op = "runConsoleCommand"

\* C22: once the reply of the matching kind for the request issued under
\* identifier i has been handled, i is eventually absent from the top-level
\* table and from every handle's sub-table.
C22_DeliveredReplySettles ==
    \A i \in Ids :
        Delivered(i) ~> (i \notin DOMAIN requests /\ i \notin SubTableIds)


\* C23: Intent.isValid(x) is true exactly when x is an Intent instance whose
\* applicationId and action are both strings; for an object literal with
\* the same two fields it is false, and for an Intent instance one of whose
\* two fields is not a string it is false.
C23_IsValidExactlyIntents ==
    last.op = "Intent.isValid"
    => /\ last.returned
            = (/\ last.message.proto = "Intent"
               /\ last.message.applicationId.t = "string"
               /\ last.message.action.t = "string")
       /\ last.message.proto # "Intent" => ~last.returned
       /\ (\/ last.message.applicationId.t # "string"
           \/ last.message.action.t # "string") => ~last.returned

\* C23 witness: an object literal with a string applicationId and a string
\* action was passed and refused
C23_Witness ==
    /\ last.op = "Intent.isValid"
    /\ last.message = PlainObject(Value("string", "app"), Value("string", "app"))
    /\ last.returned = FALSE


\* C24: when a reply handler has returned, and so before the continuation
\* of any caller it settled can run, the identifier of every request it
\* settled is in neither the top-level table nor any handle's sub-table, and
\* the caller is no longer waiting.
C24_SettledIsUnlisted ==
    last.op \in ReplyNames
    => \A k \in 1..Len(last.settled) :
          last.settled[k].slot # 0
          => /\ last.settled[k].id \notin DOMAIN requests
             /\ last.settled[k].id \notin SubTableIds
             /\ last.settled[k].id \notin {pending[s].id : s \in Outstanding}

\* C24 witness: a pointer-created reply resolved a getApi with a handle
\* while another request is still waiting
C24_Witness ==
    /\ last.op = "api:pointer-created"
    /\ Len(last.settled) = 1
    /\ last.settled[1].op = "getApi"
    /\ last.settled[1].outcome = "resolved"
    /\ Outstanding # {}
    /\ DOMAIN requests # {}


\* C25: a console reply settles no pending getApi, sendIntent or
\* callService, and a pointer-created reply settles no pending
\* runConsoleCommand, sendIntent or callService, whatever identifier the
\* reply carries.
C25_FamiliesKeptApart ==
    \A k \in 1..Len(last.settled) :
        last.settled[k].slot # 0
        => /\ last.op = "api:run-console-completed"
                => last.settled[k].op \notin {"getApi", "sendIntent", "callService"}
           /\ last.op = "api:pointer-created"
                => last.settled[k].op \notin {"runConsoleCommand", "sendIntent",
                                              "callService"}


\* C26: between handler steps, an identifier is in the sub-table of handle
\* h exactly when the top-level table maps that identifier to h.
C26_TablesAgree ==
    \A h \in 1..Len(handles) : \A i \in Ids :
        i \in DOMAIN handles[h].apiCalls
            <=> (i \in DOMAIN requests /\ requests[i] = Pointer(h))


\* C27: no step replaces the entry the top-level table holds for an
\* identifier by another entry, and a function-call reply whose identifier
\* is in the sub-table of some handle is delivered to that handle, whose
\* completion routine takes the identifier out of the sub-table.
C27_RepliesReachIssuer ==
    [][ /\ \A i \in DOMAIN requests \cap DOMAIN requests' :
             requests'[i] = requests[i]
        /\ \A h \in 1..Len(handles) :
             ( /\ last'.op = "api:run-completed"
               /\ last'.id \in DOMAIN handles[h].apiCalls )
             => /\ last'.fault = NoFault
                /\ last'.id \notin DOMAIN handles'[h].apiCalls ]_vars


\* C28: a reply whose identifier is pending in the top-level table is
\* handled without a fault, whatever the kind of the reply and whatever
\* the entry found, a raw waiter or a handle.
C28_NoFaultOnForeignReply ==
    [][ ( /\ last'.op \in ReplyNames
          /\ last'.id \in DOMAIN requests )
        => last'.fault = NoFault ]_vars


\* C29: a request operation called while the client is disconnected leaves
\* the top-level table and every handle's sub-table as they were.
C29_DisconnectedLeavesTables ==
    [][ ( /\ last'.op \in RequestOps
          /\ ~connected )
        => /\ requests' = requests
           /\ handles' = handles ]_vars


\* C30: handling a readiness message stores the endpoint, then publishes
\* the readiness event, then calls the bound shell's onCreate with the
\* launch Intent, then remembers that Intent: every request a listener of
\* the readiness event issues is posted to the endpoint this message came
\* from, onCreate runs after the listeners and before the Intent is
\* remembered, and afterwards the Intent is the last intent.
C30_ReadyOrder ==
    [][ last'.op = API_READY
        => LET intent == Intent(last'.message.applicationId, last'.message.action,
                                last'.message.params)
               issuing == Issuing(last'.invoked)
               order == last'.order
               shell == applicationInstance # NoApp
           IN /\ valuApplication'.source # Undefined
              /\ valuApplication'.origin # Undefined
              /\ Len(last'.posted) = Len(issuing)
              /\ \A k \in 1..Len(last'.posted) :
                    /\ last'.posted[k].name = "api:run-console"
                    /\ last'.posted[k].source = valuApplication'.source
                    /\ last'.posted[k].origin = valuApplication'.origin
                    /\ last'.posted[k].requestId \in DOMAIN requests'
              /\ last'.settled = <<>>
              /\ [k \in 1..Len(order) |-> order[k].at]
                    = IF shell THEN <<"endpoint", "emit", "onCreate", "lastIntent">>
                      ELSE <<"endpoint", "emit", "lastIntent">>
              /\ order[2].endpoint = valuApplication'
              /\ shell => /\ order[3].intent = intent
                          /\ order[3].lastIntent = lastIntent
                          /\ Len(last'.lifecycle) = 1
                          /\ last'.lifecycle[1] = Lifecycle(applicationInstance,
                                                            "onCreate", intent)
              /\ lastIntent' = intent ]_vars

\* C30 witness: a second readiness message, from another endpoint, has been
\* handled with a shell bound, and a listener's console request went to
\* that endpoint
C30_Witness ==
    /\ last.op = API_READY
    /\ valuApplication.source = "hostB"
    /\ Len(last.posted) >= 1
    /\ last.posted[1].source = "hostB"
    /\ Len(last.lifecycle) = 1
    /\ Len(last.order) = 4
    /\ last.order[3].lastIntent # NoIntent
    /\ last.order[3].lastIntent # lastIntent


----------------------------------------------------------------------------
(* C31 .. C39                                                              *)

\* C31: when a listener of the readiness event binds the shell while a
\* readiness message is being handled, the handling of that message invokes
\* the shell's onCreate exactly once, with the Intent built from that
\* message.
C31_BoundDuringReadyCreatedOnce ==
    [][ ( /\ last'.op = API_READY
          /\ Binding(last'.invoked) # <<>> )
        => last'.lifecycle
             = <<Lifecycle(BoundShell, "onCreate",
                           Intent(last'.message.applicationId, last'.message.action,
                                  last'.message.params))>> ]_vars


\* C32: an api:trigger message with action "on_route" and data d publishes
\* the routing event with argument d and then invokes the router-context
\* callback of the bound shell with d, without fault, whether no shell is
\* bound or any shell is, one that has only the lifecycle methods included.
C32_RouteTriggerNeverFaults ==
    [][ ( /\ last'.op = "api:trigger"
          /\ last'.message.action = ON_ROUTE )
        => /\ last'.fault = NoFault
           /\ last'.emitted = <<Emit(ON_ROUTE, last'.message.data)>>
           /\ applicationInstance # NoApp
                => last'.lifecycle
                     = <<Lifecycle(applicationInstance, "onUpdateRouterContext",
                                   Intent(Undefined, Undefined, last'.message.data))>>
           /\ applicationInstance = NoApp => last'.lifecycle = <<>> ]_vars


\* C33: setApplication completes without fault whether the shell's onCreate
\* returns a plain value or an awaitable, and where it replays the
\* remembered Intent the shell's onCreate is invoked with it.
C33_ReplayAcceptsBothShapes ==
    [][ last'.op = "setApplication"
        => /\ last'.fault = NoFault
           /\ lastIntent # NoIntent
                => last'.lifecycle
                     = <<Lifecycle(applicationInstance', "onCreate", lastIntent)>> ]_vars


\* the number of entries of list that hold callback
Entries(list, callback) == Len(SelectSeq(list, LAMBDA l : l.callback = callback))

\* the last value that is not undefined among the returns of the listeners
\* invoked, undefined when there is none
LastDefined(invoked) ==
    LET defined == {k \in 1..Len(invoked) : Returns(invoked[k].callback) # Undefined}
    IN IF defined = {} THEN Undefined
       ELSE Returns(invoked[CHOOSE k \in defined : \A j \in defined : j <= k].callback)

\* invoked follows the order of list: the j-th invocation is of an entry
\* of list that comes after the entry of the invocation before it
InOrderOf(invoked, list) ==
    \E at \in [1..Len(invoked) -> 1..Len(list)] :
        /\ \A j \in 1..Len(invoked) :
              /\ list[at[j]].callback = invoked[j].callback
              /\ list[at[j]].once = invoked[j].once
        /\ \A j \in 1..Len(invoked) - 1 : at[j] < at[j + 1]

\* C34: a publish of an event name invokes every listener registered for
\* it, once each, in registration order and with the arguments of the
\* publish (a listener that an invoked listener unsubscribed from the name
\* may have been left out), and returns the last value that is not
\* undefined among the values the invoked listeners returned.
C34_PublishInvokesAllReturnsLast ==
    [][ \A n \in EventNames :
          (last'.op = "emit" /\ last'.message.name = n)
          => LET invoked == InvokedOn(last'.invoked, n)
                 list == Listeners(events, n)
             IN /\ InOrderOf(invoked, list)
                /\ \A c \in Callbacks :
                      \/ Unsubscribed(invoked, n, c)
                      \/ Entries(invoked, c) = Entries(list, c)
                /\ \A j \in 1..Len(invoked) : invoked[j].args = last'.message.args
                /\ last'.returned = LastDefined(invoked) ]_vars


\* every invocation in invoked got the arguments args
AllWith(invoked, args) == \A j \in 1..Len(invoked) : invoked[j].args = args

\* C35: a publish of a name other than the two meta-event names invokes
\* first the listeners of "__before__", then the listeners of the name,
\* then the listeners of "__after__", the meta-event listeners with the
\* name followed by the arguments of the publish; a publish of a
\* meta-event name invokes the listeners of that name and nothing else.
C35_MetaEventsAroundPublish ==
    [][ last'.op = "emit"
        => LET n == last'.message.name
               args == last'.message.args
               before == InvokedOn(last'.invoked, "__before__")
               during == InvokedOn(last'.invoked, n)
               after == InvokedOn(last'.invoked, "__after__")
           IN IF n \in MetaEvents
              THEN /\ last'.invoked = during
                   /\ AllWith(during, args)
              ELSE /\ last'.invoked = before \o during \o after
                   /\ InvokedExactly(before, Listeners(events, "__before__"))
                   /\ AllWith(before, <<n>> \o args)
                   /\ AllWith(during, args)
                   /\ InvokedExactly(after, Listeners(events, "__after__"))
                   /\ AllWith(after, <<n>> \o args) ]_vars


\* the lists of all names but n are what they were
OthersKept(n) ==
    \A m \in NamesGiven \ {n} : Listeners(events', m) = Listeners(events, m)

\* C36 as stated: removeEventListener without arguments removes every
\* listener of every name; with a name only it empties the list of that
\* name and leaves the other lists; with a name and a callback it removes
\* the entries of that name that hold the callback, all of them, and leaves
\* every other entry in place and in order.
C36_UnsubscribeByArity ==
    [][ last'.op = "removeEventListener"
        => LET n == last'.message.name
               c == last'.message.callback
           IN IF n = Undefined
              THEN \A m \in NamesGiven : Listeners(events', m) = <<>>
              ELSE IF c = Undefined
              THEN /\ Listeners(events', n) = <<>>
                   /\ OthersKept(n)
              ELSE /\ Listeners(events', n)
                        = SelectSeq(Listeners(events, n), LAMBDA l : l.callback # c)
                   /\ OthersKept(n) ]_vars

\* C36 amended: the same three cases, told apart by whether the name and
\* the callback are truthy: an empty name counts as no name.
C36_UnsubscribeByTruthiness ==
    [][ last'.op = "removeEventListener"
        => LET n == last'.message.name
               c == last'.message.callback
           IN IF n = Undefined \/ n = ""
              THEN \A m \in NamesGiven : Listeners(events', m) = <<>>
              ELSE IF c = Undefined
              THEN /\ Listeners(events', n) = <<>>
                   /\ OthersKept(n)
              ELSE /\ Listeners(events', n)
                        = SelectSeq(Listeners(events, n), LAMBDA l : l.callback # c)
                   /\ OthersKept(n) ]_vars

\* C36 witness: a callback held twice under a name was unsubscribed from
\* it by name and callback, both entries went, and the same callback is
\* still subscribed under another name
C36_Witness ==
    /\ last.op = "removeEventListener"
    /\ last.message.name = "e"
    /\ last.message.callback = "L"
    /\ last.message.removed = 2
    /\ Listeners(events, "e") = <<>>
    /\ Listeners(events, "") = <<Listener("L", FALSE)>>


\* C37: subscribing adds an entry whether or not the callback is already
\* held, and a publish of a name invokes a callback as many times as the
\* list of the name holds it (a callback an invoked listener unsubscribed
\* from the name set aside); afterwards the list holds the callback as
\* many times as it held it in entries that are not once-entries.
C37_NoDeduplication ==
    [][ /\ last'.op = "addEventListener"
             => ListenerCount(events') = ListenerCount(events) + 1
        /\ \A n \in EventNames :
             (last'.op = "emit" /\ last'.message.name = n)
             => \A c \in Callbacks :
                   \/ Unsubscribed(InvokedOn(last'.invoked, n), n, c)
                   \/ /\ Entries(InvokedOn(last'.invoked, n), c)
                           = Entries(Listeners(events, n), c)
                      /\ Entries(Listeners(events', n), c)
                           = Entries(Persistent(Listeners(events, n)), c) ]_vars


\* C38: when a listener invoked by the publish of a name unsubscribes a
\* callback from that same name, the publish still invokes every entry of
\* the name that holds another callback, once each; the list of the name
\* afterwards is the list at the start without the entries of the
\* unsubscribed callback and without the once-entries; and the listeners
\* of "__after__" are invoked.
C38_UnsubscribeDuringDispatch ==
    [][ \A n \in MetaNames \ MetaEvents :
          ( /\ last'.op = "emit"
            /\ last'.message.name = n
            /\ ~Undisturbed(InvokedOn(last'.invoked, n), n) )
          => LET invoked == InvokedOn(last'.invoked, n)
             IN /\ \A c \in Callbacks :
                      \/ Unsubscribed(invoked, n, c)
                      \/ Entries(invoked, c) = Entries(Listeners(events, n), c)
                /\ Listeners(events', n)
                     = SelectSeq(Listeners(events, n),
                                 LAMBDA l : /\ ~l.once
                                            /\ ~Unsubscribed(invoked, n, l.callback))
                /\ InvokedExactly(InvokedOn(last'.invoked, "__after__"),
                                  Listeners(events, "__after__")) ]_vars


\* C39: the Intent a readiness message or a new-intent message is turned
\* into has the applicationId of the message, the action of the message or
\* "open" when the message carries none, and the params of the message or
\* an empty mapping when it carries none; this is the Intent the shell's
\* onCreate or onNewIntent gets, and the one remembered after a readiness
\* message.
C39_ActionDefaultsToOpen ==
    last.op \in {API_READY, "api:new-intent"}
    => LET expected ==
               [applicationId |-> last.message.applicationId,
                action |-> IF last.message.action = Undefined THEN "open"
                           ELSE last.message.action,
                params |-> IF last.message.params = Undefined THEN "{}"
                           ELSE last.message.params]
       IN /\ applicationInstance # NoApp => Len(last.lifecycle) = 1
          /\ \A k \in 1..Len(last.lifecycle) :
                /\ last.lifecycle[k].method
                     = (IF last.op = API_READY THEN "onCreate" ELSE "onNewIntent")
                /\ last.lifecycle[k].intent = expected
          /\ last.op = API_READY => lastIntent = expected

\* C39 witness: a new-intent message without action and without params
\* reached the shell as an Intent with action "open" and empty params
C39_Witness ==
    /\ last.op = "api:new-intent"
    /\ last.message.action = Undefined
    /\ last.message.params = Undefined
    /\ Len(last.lifecycle) = 1
    /\ last.lifecycle[1].method = "onNewIntent"
    /\ last.lifecycle[1].intent.action = "open"
    /\ last.lifecycle[1].intent.params = "{}"

====
